---- MODULE Spec2Model ----
(***************************************************************************)
(* Model of sigproc.py: the transport facade (MainWindow.sound_play,       *)
(* sound_pause, sound_stop, load_signal, on_sound_done) running on the     *)
(* control thread, and the chunk loop (SoundThread.run) running on one     *)
(* background thread per session.  The two sides share the session's       *)
(* flags (start_at, restart, running, paused), one mutex and one wait      *)
(* condition.  Times are integer milliseconds.                             *)
(***************************************************************************)
EXTENDS Integers, Sequences, FiniteSets, TLC

\* ---------------------------------------------------------------- bounds
MaxSessions == 2      \* SoundThread objects created in one behaviour
MaxOps == 4           \* transport intents (play, click, pause, stop)
MaxLoads == 2         \* file selections
NumFiles == 1         \* distinct decodable files the user can select
MaxOffsetK == 2       \* click offsets are 0 .. MaxOffsetK steps of OffsetStep

\* ------------------------------------------------------ program constants
ChunkMs == 50         \* make_chunks(self.sound[start:], 50)
FrameStepMs == 50     \* current_time += 0.05 (seconds)

Sessions == 1 .. MaxSessions
Files == 1 .. NumFiles
OffsetStep == ChunkMs + (ChunkMs \div 2)
Offsets == {k * OffsetStep : k \in 0 .. MaxOffsetK}

\* duration in ms of decoded file f (len(AudioSegment)); not chunk-aligned
duration(f) == 2 * ChunkMs + 40 - (f - 1) * 30

VARIABLES
    sound,           \* MainWindow.sound / signal: 0 = None, else the file
    sound_thread,    \* MainWindow.sound_thread: 0 = None, else the session
    sound_paused,    \* MainWindow.sound_paused
    sound_start_at,  \* MainWindow.sound_start_at (ms)
    ui,              \* buttons: "init" all disabled, else the last update_ui
    mutex,           \* sound_mutex owner: 0 free, -1 control thread, s loop
    ctl_pc,          \* control thread: "idle" or the handler step it is at
    ctl_cont,        \* what follows sound_stop: <<"idle">> or <<"load", f>>
    events,          \* sessions whose finished signal is queued
    thr,             \* the SoundThread objects, by session
    nsess,           \* sessions created so far
    dev,             \* output streams open (device opens minus closes)
    ops,             \* transport intents issued so far
    loads,           \* file selections made so far
    crashed          \* the process was aborted by an unhandled exception

vars == <<sound, sound_thread, sound_paused, sound_start_at, ui, mutex,
          ctl_pc, ctl_cont, events, thr, nsess, dev, ops, loads, crashed>>

facade == <<sound, sound_thread, sound_paused, sound_start_at, ui>>
budget == <<ops, loads>>
control == <<ctl_pc, ctl_cont, budget>>

\* ------------------------------------------------------------- helpers

\* faulty variant: a slice that starts at or past the end still yields a chunk
number_of_chunks_pads(dur, start) ==
    IF start >= dur THEN 1 ELSE (dur - start + ChunkMs - 1) \div ChunkMs

\* pydub make_chunks(sound[start:], 50): ceil(len / 50) chunks, none when
\* the slice is empty (start at or past the end)
number_of_chunks(dur, start) ==
    IF start >= dur THEN 0 ELSE (dur - start + ChunkMs - 1) \div ChunkMs

\* the i-th chunk (from 0) of the partition that starts at start, named by
\* the audio position (ms) of its first sample
chunk_at(start, i) == start + i * ChunkMs

\* SoundThread.__init__ (and the thread started right after)
SoundThread(snd, at) ==
    [st |-> "live", pc |-> "open", sound |-> snd,
     start_at |-> at, restart |-> TRUE, running |-> TRUE, paused |-> FALSE,
     start |-> 0, i |-> 0, current_time |-> 0,
     pa |-> "none", opens |-> 0, closes |-> 0, fin |-> 0,
     \* history, read only by the properties:
     \* the chunks written and the ticks emitted while the session has not
     \* been redirected, and whether its loop has returned from wait()
     written |-> <<>>, ticks |-> <<>>, woke |-> FALSE,
     \* play_at has run on the session
     redirected |-> FALSE,
     \* chunk writes begun after running was cleared; what the session was
     \* doing when it was first stopped
     wstop |-> 0, stopk |-> "none",
     \* the last flip of paused was to False and wakeAll followed it
     resumed_bcast |-> FALSE,
     \* the offset of a redirect issued while streaming and not yet played
     \* (-1: none), whether the pass was set up after it, and the chunks
     \* written since by the pass it interrupted
     rq |-> -1, pass_new |-> FALSE, extra |-> 0,
     \* a redirect was issued while the loop was parked in the pause wait and
     \* the loop has not set up a pass since
     rqp |-> FALSE,
     \* device writes completed whose tick has not been emitted yet
     untick |-> 0,
     \* the current pass was set up with running already cleared
     pass_stopped |-> FALSE]

NoThread == [SoundThread(0, 0) EXCEPT !.st = "none", !.pc = "none",
                                      !.restart = FALSE, !.running = FALSE]
Gone == [NoThread EXCEPT !.st = "gone"]

live(s) == thr[s].st = "live"

\* the thread of session s is executing run()
loop_alive(s) == live(s) /\ thr[s].pc \notin {"done", "aborted"}

\* QWaitCondition.wakeAll: every thread parked in wait() is released and
\* must reacquire the mutex
wakeAll(t) ==
    [s \in Sessions |->
        IF t[s].pc = "parked" THEN [t[s] EXCEPT !.pc = "woken"] ELSE t[s]]

\* MainWindow.update_ui(block): Pause and Stop enabled iff block, Play iff not
update_ui(block) == IF block THEN "block" ELSE "free"

is_signal_loaded == sound # 0

\* ------------------------------------------------ chunk loop: SoundThread.run
\* Each action is one step of run() of session s; a step reads or writes the
\* shared flags at most once, so every interleaving with the control thread
\* that the interpreter allows is a behaviour of the model.

Step(s, r) == thr' = [thr EXCEPT ![s] = r]

\* the thread of s is about to execute the step named pc
at_pc(s, pc) == ~crashed /\ thr[s].pc = pc

\* faulty variant: the stream is opened inside the restart loop
restart_reopens == "open"

\* l.307-308: where `while self.restart` goes when restart is set
restart_target == "clear"

\* faulty variant: run() returns without closing the stream
while_exit_skips_close == "finish"

\* faulty variant: with restart clear the while loop is not left
while_exit_spins == "while"

\* l.307, l.327: where `while self.restart` goes when restart is clear
while_exit == "close"

\* faulty variant: after the pause wait the partition is set up again
after_unlock_rewinds == "chunks"

\* l.325, l.313: after the pause wait the for loop goes on with its next chunk
after_unlock == "for"

\* faulty variant: the for loop breaks only when the session is stopped
for_break_ignores_restart(t) == ~t.running

\* l.314: if not self.running or self.restart: break
for_break(t) == ~t.running \/ t.restart

\* faulty variant: the paused check comes first in the body of the for loop
for_body_checks_pause == "pcheck"

\* l.317: the body of the for loop goes on to stream.write
for_body == "write"

\* faulty variant: the write is not followed by a progress tick
after_write_skips_tick == "pcheck"

\* l.317-320: stream.write is followed by the progress tick
after_write == "tick"

\* l.300-305: p = PyAudio(); stream = p.open(...) succeeds
run_open(s) ==
    /\ at_pc(s, "open")
    /\ Step(s, [thr[s] EXCEPT !.pa = "live", !.opens = @ + 1, !.pc = "while"])
    /\ dev' = dev + 1
    /\ UNCHANGED <<facade, control, mutex, events, nsess, crashed>>

\* l.300-305: p.open raises; run() has no handler, p is never terminated
run_open_fail(s) ==
    /\ at_pc(s, "open")
    /\ Step(s, [thr[s] EXCEPT !.pa = "live", !.pc = "raised"])
    /\ UNCHANGED <<facade, control, mutex, events, nsess, dev, crashed>>

\* the exception leaves run(): PyQt's default handler aborts the process
run_raised_abort(s) ==
    /\ at_pc(s, "raised")
    /\ Step(s, [thr[s] EXCEPT !.pc = "aborted"])
    /\ crashed' = TRUE
    /\ UNCHANGED <<facade, control, mutex, events, nsess, dev>>

\* the exception leaves run(): the traceback is printed and the thread ends
run_raised_return(s) ==
    /\ at_pc(s, "raised")
    /\ Step(s, [thr[s] EXCEPT !.pc = "finish"])
    /\ UNCHANGED <<facade, control, mutex, events, nsess, dev, crashed>>

\* l.307: while self.restart
run_while(s) ==
    /\ at_pc(s, "while")
    /\ Step(s, [thr[s] EXCEPT
                  !.pc = IF thr[s].restart THEN restart_target ELSE while_exit])
    /\ UNCHANGED <<facade, control, mutex, events, nsess, dev, crashed>>

\* l.308: self.restart = False
run_clear(s) ==
    /\ at_pc(s, "clear")
    /\ Step(s, [thr[s] EXCEPT !.restart = FALSE, !.pc = "chunks"])
    /\ UNCHANGED <<facade, control, mutex, events, nsess, dev, crashed>>

\* l.313: len(make_chunks(self.sound[start:], 50)) of the current pass
chunks(s) == number_of_chunks(duration(thr[s].sound), thr[s].start)

\* faulty variant: the playhead of a pass starts at zero
current_time_from_zero(t) == 0

\* l.312: current_time = self.start_at
current_time_init(t) == t.start_at

\* l.311-313: start, current_time and the chunk partition from start_at
run_chunks(s) ==
    /\ at_pc(s, "chunks")
    /\ Step(s, [thr[s] EXCEPT
                  !.start = thr[s].start_at,
                  !.current_time = current_time_init(thr[s]),
                  !.i = 0,
                  !.pass_new = thr[s].rq # -1,
                  !.pass_stopped = ~thr[s].running,
                  !.pc = "for"])
    /\ UNCHANGED <<facade, control, mutex, events, nsess, dev, crashed>>

\* l.313-315: next chunk of the partition, or fall out of the for loop;
\* break when stopped or redirected
run_for(s) ==
    /\ at_pc(s, "for")
    /\ Step(s, [thr[s] EXCEPT
                  !.pc = IF thr[s].i = chunks(s) THEN "while"
                         ELSE IF for_break(thr[s]) THEN "while"
                         ELSE for_body])
    /\ UNCHANGED <<facade, control, mutex, events, nsess, dev, crashed>>

\* l.317: stream.write(chunk._data), blocking for the chunk's duration
run_write(s) ==
    /\ at_pc(s, "write")
    /\ Step(s, [thr[s] EXCEPT
                  !.written = IF thr[s].redirected THEN @
                              ELSE Append(@, chunk_at(thr[s].start, thr[s].i)),
                  !.i = @ + 1,
                  !.wstop = IF thr[s].running THEN @ ELSE @ + 1,
                  !.extra = IF thr[s].rq # -1 /\ ~thr[s].pass_new THEN @ + 1 ELSE 0,
                  !.rq = IF thr[s].pass_new THEN -1 ELSE @,
                  !.rqp = IF thr[s].pass_new THEN FALSE ELSE @,
                  !.pass_new = FALSE,
                  !.untick = @ + 1,
                  !.pc = after_write])
    /\ UNCHANGED <<facade, control, mutex, events, nsess, dev, crashed>>

\* l.319-320: current_time += 0.05; sig_frame.emit(current_time)
run_tick(s) ==
    /\ at_pc(s, "tick")
    /\ Step(s, [thr[s] EXCEPT
                  !.current_time = @ + FrameStepMs,
                  !.ticks = IF thr[s].redirected THEN @
                            ELSE Append(@, thr[s].current_time + FrameStepMs),
                  !.untick = @ - 1,
                  !.pc = "pcheck"])
    /\ UNCHANGED <<facade, control, mutex, events, nsess, dev, crashed>>

\* l.322: if self.paused (read without the mutex)
run_pcheck(s) ==
    /\ at_pc(s, "pcheck")
    /\ Step(s, [thr[s] EXCEPT !.pc = IF thr[s].paused THEN "lock" ELSE "for"])
    /\ UNCHANGED <<facade, control, mutex, events, nsess, dev, crashed>>

\* l.323: self.mutex.lock()
run_lock(s) ==
    /\ at_pc(s, "lock")
    /\ mutex = 0
    /\ mutex' = s
    /\ Step(s, [thr[s] EXCEPT !.pc = "wait"])
    /\ UNCHANGED <<facade, control, events, nsess, dev, crashed>>

\* l.324: pause_cond.wait(mutex) releases the mutex and parks, atomically
run_wait(s) ==
    /\ at_pc(s, "wait")
    /\ mutex' = 0
    /\ Step(s, [thr[s] EXCEPT !.pc = "parked"])
    /\ UNCHANGED <<facade, control, events, nsess, dev, crashed>>

\* l.324: woken by wakeAll, wait() returns once it holds the mutex again
run_wake(s) ==
    /\ at_pc(s, "woken")
    /\ mutex = 0
    /\ mutex' = s
    /\ Step(s, [thr[s] EXCEPT !.pc = "unlock", !.woke = ~thr[s].redirected])
    /\ UNCHANGED <<facade, control, events, nsess, dev, crashed>>

\* l.325: self.mutex.unlock()
run_unlock(s) ==
    /\ at_pc(s, "unlock")
    /\ mutex' = 0
    /\ Step(s, [thr[s] EXCEPT !.pc = after_unlock])
    /\ UNCHANGED <<facade, control, events, nsess, dev, crashed>>

\* l.327-328: stream.close(); p.terminate()
run_close(s) ==
    /\ at_pc(s, "close")
    /\ Step(s, [thr[s] EXCEPT !.closes = @ + 1, !.pa = "terminated", !.pc = "finish",
                               !.start = 0, !.i = 0, !.current_time = 0,
                               !.wstop = 0, !.stopk = "none", !.resumed_bcast = FALSE,
                               !.rq = -1, !.pass_new = FALSE, !.extra = 0,
                               !.rqp = FALSE, !.untick = 0, !.pass_stopped = FALSE])
    /\ dev' = dev - 1
    /\ UNCHANGED <<facade, control, mutex, events, nsess, crashed>>

\* run() has returned: QThread emits finished, queued to the control thread
run_finished(s) ==
    /\ at_pc(s, "finish")
    /\ Step(s, [thr[s] EXCEPT !.fin = @ + 1, !.pc = "done"])
    /\ events' = events \cup {s}
    /\ UNCHANGED <<facade, control, mutex, nsess, dev, crashed>>

run(s) ==
    \/ run_open(s) \/ run_open_fail(s) \/ run_raised_abort(s) \/ run_raised_return(s)
    \/ run_while(s) \/ run_clear(s) \/ run_chunks(s) \/ run_for(s)
    \/ run_write(s) \/ run_tick(s) \/ run_pcheck(s)
    \/ run_lock(s) \/ run_wait(s) \/ run_wake(s) \/ run_unlock(s)
    \/ run_close(s) \/ run_finished(s)

\* --------------------------------------------- control thread: MainWindow
\* The slots play_at, pause and stop belong to the SoundThread object, which
\* lives in the control thread, so an emit runs them at once on the control
\* thread, for every SoundThread object that still exists.

\* faulty variant: play never finds a session to redirect and spawns another one
has_sound_thread_never == FALSE

\* l.244: if self.sound_thread
has_sound_thread == sound_thread # 0

\* the loop of s is inside its pass and the session is neither stopped nor
\* paused
streaming(s) ==
    /\ live(s) /\ thr[s].running /\ ~thr[s].paused
    /\ thr[s].pc \in {"while", "clear", "chunks", "for", "write", "tick", "pcheck"}

\* the loop of s is parked in pause_cond.wait (l.324) on a paused session
parked(s) == live(s) /\ thr[s].paused /\ thr[s].pc = "parked"

\* l.260 and l.337-338: sig_sound_stop.emit() -> SoundThread.stop
stop(t) ==
    [s \in Sessions |->
        IF t[s].st # "live" THEN t[s]
        ELSE [t[s] EXCEPT
                !.running = FALSE,
                !.stopk = IF ~t[s].running \/ t[s].pc \in {"finish", "done"} THEN @
                          ELSE IF ~t[s].paused THEN "unpaused"
                          ELSE IF t[s].pc \in {"lock", "wait", "parked"} THEN "paused"
                          ELSE "none"]]

\* l.267/272 and l.334-335: sig_sound_pause.emit() -> SoundThread.pause
pause(t) ==
    [s \in Sessions |->
        IF t[s].st # "live" THEN t[s]
        ELSE [t[s] EXCEPT
                !.paused = ~@,
                !.resumed_bcast = FALSE,
                !.stopk = IF @ = "unpaused" THEN "none" ELSE @]]

\* faulty variant: play_at forgets to store the requested offset
play_at_drops_offset(t, at) ==
    [s \in Sessions |->
        IF t[s].st # "live" THEN t[s]
        ELSE [t[s] EXCEPT !.redirected = TRUE,
                          !.written = <<>>, !.ticks = <<>>, !.woke = FALSE]]

\* l.330-331: SoundThread.play_at, self.start_at = start_at
play_at_start_at(t, at) ==
    [s \in Sessions |->
        IF t[s].st # "live" THEN t[s]
        ELSE [t[s] EXCEPT !.start_at = at, !.redirected = TRUE,
                          !.written = <<>>, !.ticks = <<>>, !.woke = FALSE]]

\* faulty variant: play_at also sets running again
play_at_revives(t) ==
    [s \in Sessions |->
        IF t[s].st # "live" THEN t[s]
        ELSE [t[s] EXCEPT !.restart = TRUE, !.running = TRUE]]

\* l.332: SoundThread.play_at, self.restart = True
play_at_restart(t) ==
    [s \in Sessions |->
        IF t[s].st # "live" THEN t[s]
        ELSE IF t[s].rq # -1 \/ streaming(s) \/ parked(s)
        THEN [t[s] EXCEPT !.restart = TRUE,
                          !.rq = sound_start_at, !.pass_new = FALSE, !.extra = 0,
                          !.rqp = parked(s) \/ (@ /\ ~t[s].pass_new)]
        ELSE [t[s] EXCEPT !.restart = TRUE]]

Idle == ctl_pc = "idle" /\ ~crashed
Intent == Idle /\ ops < MaxOps /\ ops' = ops + 1 /\ UNCHANGED loads

\* l.243-254: MainWindow.sound_play with sound_start_at = at
sound_play(at) ==
    IF has_sound_thread
    THEN /\ thr' = play_at_start_at(thr, at)
         /\ ctl_pc' = "play_restart"
         /\ UNCHANGED <<sound_thread, ui, nsess, dev>>
    ELSE IF is_signal_loaded
    THEN /\ nsess < MaxSessions
         /\ nsess' = nsess + 1
         /\ sound_thread' = nsess + 1
         /\ thr' = [thr EXCEPT ![nsess + 1] = SoundThread(sound, at)]
         /\ ui' = update_ui(TRUE)
         /\ UNCHANGED <<ctl_pc, dev>>
    ELSE UNCHANGED <<sound_thread, ui, nsess, dev, thr, ctl_pc>>

\* the Play button (enabled iff the last update_ui had block = False)
btn_play ==
    /\ Intent
    /\ ui = "free"
    /\ sound_play(sound_start_at)
    /\ UNCHANGED <<sound, sound_paused, sound_start_at, mutex, ctl_cont, events, crashed>>

\* l.202-208: click on the plot (it exists once a signal is loaded) at x
on_plot_click(x) ==
    /\ Intent
    /\ is_signal_loaded
    /\ sound_start_at' = x
    /\ sound_play(x)
    /\ UNCHANGED <<sound, sound_paused, mutex, ctl_cont, events, crashed>>

\* l.332, second statement of the play_at slot
sound_play_restart ==
    /\ ctl_pc = "play_restart" /\ ~crashed
    /\ thr' = play_at_restart(thr)
    /\ ctl_pc' = "idle"
    /\ UNCHANGED <<facade, ctl_cont, budget, mutex, events, nsess, dev, crashed>>

\* l.259-260: the Stop button (enabled iff block = True): emit, then go lock
btn_stop ==
    /\ Intent
    /\ ui = "block"
    /\ thr' = stop(thr)
    /\ ctl_pc' = "stop_lock"
    /\ ctl_cont' = <<"idle">>
    /\ UNCHANGED <<facade, mutex, events, nsess, dev, crashed>>

\* l.111-122: a file is selected (f = 0: one that does not decode);
\* load_signal starts with sound_stop()
show_file_dialog(f) ==
    /\ Idle
    /\ loads < MaxLoads
    /\ loads' = loads + 1
    /\ UNCHANGED ops
    /\ thr' = stop(thr)
    /\ ctl_pc' = "stop_lock"
    /\ ctl_cont' = <<"load", f>>
    /\ UNCHANGED <<facade, mutex, events, nsess, dev, crashed>>

\* l.261: self.sound_mutex.lock()
sound_stop_lock ==
    /\ ctl_pc = "stop_lock" /\ ~crashed
    /\ mutex = 0
    /\ mutex' = -1
    /\ ctl_pc' = "stop_wake"
    /\ UNCHANGED <<facade, ctl_cont, budget, events, thr, nsess, dev, crashed>>

\* l.262-263: self.sound_pause_cond.wakeAll(); self.sound_mutex.unlock();
\* sound_stop returns to its caller
sound_stop_wakeAll ==
    /\ ctl_pc = "stop_wake" /\ ~crashed
    /\ thr' = wakeAll(thr)
    /\ mutex' = 0
    /\ ctl_pc' = IF ctl_cont[1] = "load" THEN "load" ELSE "idle"
    /\ UNCHANGED <<facade, ctl_cont, budget, events, nsess, dev, crashed>>

\* l.124-130 and l.116-117, l.144: decode, update_ui(self.signal is None),
\* and plot() (which resets sound_start_at) when a signal is loaded
load_signal ==
    /\ ctl_pc = "load" /\ ~crashed
    /\ sound' = IF ctl_cont[2] # 0 THEN ctl_cont[2] ELSE sound
    /\ ui' = update_ui(sound' = 0)
    /\ sound_start_at' = IF sound' # 0 THEN 0 ELSE sound_start_at
    /\ ctl_pc' = "idle"
    /\ ctl_cont' = <<"idle">>
    /\ UNCHANGED <<sound_thread, sound_paused, budget, mutex, events, thr, nsess, dev, crashed>>

\* l.265-274: the Pause/Resume button (enabled iff block = True).  With
\* sound_paused set the handler emits and goes on to lock and wakeAll;
\* otherwise it emits, flips sound_paused and returns.
btn_pause ==
    /\ Intent
    /\ ui = "block"
    /\ thr' = pause(thr)
    /\ IF sound_paused
       THEN /\ ctl_pc' = "pause_lock"
            /\ UNCHANGED <<sound_paused, ui>>
       ELSE /\ sound_paused' = ~sound_paused
            /\ ui' = update_ui(TRUE)
            /\ UNCHANGED ctl_pc
    /\ UNCHANGED <<sound, sound_thread, sound_start_at, mutex, ctl_cont, events,
                   nsess, dev, crashed>>

\* l.268: self.sound_mutex.lock()
sound_pause_lock ==
    /\ ctl_pc = "pause_lock" /\ ~crashed
    /\ mutex = 0
    /\ mutex' = -1
    /\ ctl_pc' = "pause_wake"
    /\ UNCHANGED <<facade, ctl_cont, budget, events, thr, nsess, dev, crashed>>

\* l.269-274: self.sound_pause_cond.wakeAll(); self.sound_mutex.unlock();
\* sound_paused = not sound_paused; update_ui(True)
sound_pause_wakeAll ==
    /\ ctl_pc = "pause_wake" /\ ~crashed
    /\ thr' = [s \in Sessions |->
                 IF loop_alive(s) /\ thr[s].pc # "finish" /\ ~thr[s].paused
                 THEN [wakeAll(thr)[s] EXCEPT !.resumed_bcast = TRUE]
                 ELSE wakeAll(thr)[s]]
    /\ mutex' = 0
    /\ sound_paused' = ~sound_paused
    /\ ui' = update_ui(TRUE)
    /\ ctl_pc' = "idle"
    /\ UNCHANGED <<sound, sound_thread, sound_start_at, ctl_cont, budget, events,
                   nsess, dev, crashed>>

\* l.276-278: the queued finished signal of session s is delivered; the
\* SoundThread object loses its last reference and is destroyed
on_sound_done(s) ==
    /\ Idle
    /\ s \in events
    /\ events' = events \ {s}
    /\ sound_thread' = 0
    /\ ui' = update_ui(FALSE)
    /\ thr' = [thr EXCEPT ![s] = Gone]
    /\ UNCHANGED <<sound, sound_paused, sound_start_at, control, mutex, nsess, dev, crashed>>

\* ------------------------------------------------------------ specification

\* l.29-41, l.54-66: MainWindow.__init__ and initUI
Init ==
    /\ sound = 0
    /\ sound_thread = 0
    /\ sound_paused = FALSE
    /\ sound_start_at = 0
    /\ ui = "init"
    /\ mutex = 0
    /\ ctl_pc = "idle"
    /\ ctl_cont = <<"idle">>
    /\ events = {}
    /\ thr = [s \in Sessions |-> NoThread]
    /\ nsess = 0
    /\ dev = 0
    /\ ops = 0
    /\ loads = 0
    /\ crashed = FALSE

Next ==
    \/ \E f \in Files \cup {0} : show_file_dialog(f)
    \/ load_signal
    \/ btn_play
    \/ \E x \in Offsets : on_plot_click(x)
    \/ sound_play_restart
    \/ btn_pause
    \/ sound_pause_lock
    \/ sound_pause_wakeAll
    \/ btn_stop
    \/ sound_stop_lock
    \/ sound_stop_wakeAll
    \/ \E s \in Sessions : on_sound_done(s)
    \/ \E s \in Sessions : run(s)

Spec == Init /\ [][Next]_vars

\* Scheduling: the thread of every session keeps being scheduled, a handler
\* that has started runs to its end, and the event loop delivers a queued
\* finished signal.  Nothing obliges the user to press or select anything.
Fairness ==
    /\ \A s \in Sessions : WF_vars(run(s))
    /\ \A s \in Sessions : WF_vars(on_sound_done(s))
    /\ WF_vars(sound_play_restart)
    /\ WF_vars(sound_stop_lock) /\ WF_vars(sound_stop_wakeAll)
    /\ WF_vars(load_signal)
    /\ WF_vars(sound_pause_lock) /\ WF_vars(sound_pause_wakeAll)

FairSpec == Spec /\ Fairness

\* ------------------------------------------------------------------ claims

\* the loop of s is between the device open and the device close
in_loop(s) ==
    /\ live(s)
    /\ thr[s].pc \in {"while", "clear", "chunks", "for", "write", "tick", "pcheck",
                      "lock", "wait", "parked", "woken", "unlock", "close"}

\* C1: a stop issued while the session is paused (loop parked, or between
\* its paused check and wait()) never leaves the loop parked once the stop
\* handler has returned: the loop leaves the wait without further control.
C1_StopWhilePausedWakes ==
    \A s \in Sessions :
        ~(thr[s].stopk = "paused" /\ thr[s].pc = "parked" /\ ctl_pc = "idle")

\* C2: at most one chunk loop is alive, at most one output stream is open,
\* and every SoundThread object that exists is the one sound_thread names
\* (so a session is created only after its predecessor's completion was
\* handled).
C2_OneSession ==
    /\ Cardinality({s \in Sessions : loop_alive(s)}) <= 1
    /\ dev \in {0, 1}
    /\ \A s \in Sessions : live(s) => sound_thread = s

C2_Witness ==
    \E s \in Sessions :
        /\ s > 1 /\ thr[1].st = "gone"
        /\ loop_alive(s) /\ thr[s].pc = "tick" /\ dev = 1

\* C3: every step that flips a live session's paused flag from True to
\* False belongs to the branch of sound_pause that goes on to wakeAll.
C3_ResumeBroadcasts ==
    [][\A s \in Sessions :
          (live(s) /\ thr[s].paused /\ thr'[s].st = "live" /\ ~thr'[s].paused)
              => ctl_pc' = "pause_lock"]_vars

\* C4: after a resume (paused set to False, then wakeAll) of a running
\* session the loop is not left parked in the pause wait.
C4_ResumeNotLost ==
    \A s \in Sessions :
        ~(thr[s].pc = "parked" /\ thr[s].resumed_bcast /\ thr[s].running
            /\ ctl_pc = "idle")

\* C5: after a stop issued to a live, non-paused session the loop begins at
\* most one more chunk write, is not left parked, and closes the device
\* exactly once.
C5_StopEndsSession ==
    \A s \in Sessions :
        /\ thr[s].wstop <= 1
        /\ thr[s].closes <= 1
        /\ (thr[s].pc \in {"finish", "done"} /\ thr[s].opens = 1) => thr[s].closes = 1
        /\ ~(thr[s].stopk = "unpaused" /\ thr[s].pc = "parked" /\ ctl_pc = "idle")

C7_OpenOnce ==
    \A s \in Sessions :
        /\ thr[s].opens <= 1
        /\ in_loop(s) => (thr[s].opens = 1 /\ thr[s].closes = 0 /\ dev = 1)

C7_Witness ==
    \E s \in Sessions :
        /\ thr[s].redirected /\ thr[s].pc = "tick"
        /\ thr[s].start = thr[s].start_at /\ thr[s].start # 0
        /\ thr[s].opens = 1

\* C8: in a session that was never redirected the chunks written are, in
\* order, the first chunks of the partition from the start offset, however
\* often the loop was paused and resumed.
C8_PauseKeepsOrder ==
    \A s \in Sessions :
        (live(s) /\ ~thr[s].redirected) =>
            /\ Len(thr[s].written)
                 <= number_of_chunks(duration(thr[s].sound), thr[s].start_at)
            /\ \A k \in 1 .. Len(thr[s].written) :
                 thr[s].written[k] = thr[s].start_at + (k - 1) * ChunkMs

C8_Witness ==
    \E s \in Sessions :
        /\ ~thr[s].redirected /\ thr[s].woke /\ thr[s].running
        /\ thr[s].pc = "tick" /\ Len(thr[s].written) >= 2

\* C9: the finished signal of a session is emitted at most once, exactly
\* when run() has returned, with no stream of the session open; it is queued
\* until on_sound_done, after which sound_thread no longer names the session.
C9_CompletionOnce ==
    \A s \in Sessions :
        /\ thr[s].fin <= 1
        /\ live(s) => (thr[s].fin = 1 <=> thr[s].pc = "done")
        /\ thr[s].fin = 1 => thr[s].closes = thr[s].opens
        /\ s \in events => (live(s) /\ thr[s].pc = "done")
        /\ thr[s].st = "gone" => (sound_thread # s /\ s \notin events)

C9_Witness ==
    \E s \in Sessions :
        /\ thr[s].pc = "done" /\ thr[s].fin = 1 /\ thr[s].closes = 1
        /\ ~thr[s].running /\ s \in events

\* C10: a failed device open is handled: the process goes on, and the
\* session that ends without a stream has released its PyAudio instance.
C10_OpenFailureHandled ==
    /\ ~crashed
    /\ \A s \in Sessions :
         (live(s) /\ thr[s].opens = 0 /\ thr[s].pc \in {"finish", "done"})
             => thr[s].pa # "live"

\* the loop of s is inside the body of the for loop (l.317-325)
in_body(s) ==
    thr[s].pc \in {"write", "tick", "pcheck", "lock", "wait", "parked", "woken", "unlock"}

\* C11: a pass whose offset is at or past the end of the audio has an empty
\* partition: the loop never enters the body of the for loop in it, so a
\* session started there writes nothing and emits no tick, and when it is
\* done it has closed the device and emitted finished once.
C11_PastEndPlaysNothing ==
    \A s \in Sessions :
        /\ (in_loop(s) /\ in_body(s)) => thr[s].start < duration(thr[s].sound)
        /\ (live(s) /\ ~thr[s].redirected
              /\ thr[s].start_at >= duration(thr[s].sound))
            => /\ thr[s].written = <<>> /\ thr[s].ticks = <<>>
               /\ ~in_body(s)
               /\ thr[s].pc = "done" =>
                    (thr[s].fin = 1 /\ thr[s].closes = thr[s].opens)

C11_Witness ==
    \E s \in Sessions :
        /\ live(s) /\ ~thr[s].redirected /\ thr[s].running
        /\ thr[s].start_at >= duration(thr[s].sound)
        /\ thr[s].pc = "done" /\ thr[s].opens = 1 /\ thr[s].closes = 1
        /\ thr[s].fin = 1 /\ thr[s].written = <<>> /\ thr[s].ticks = <<>>

C13_FailedLoadKeepsState ==
    [][(ctl_cont' = <<"load", 0>> \/ ctl_cont = <<"load", 0>>) =>
          /\ sound' = sound
          /\ \A s \in Sessions :
               loop_alive(s) =>
                   /\ thr'[s].running = thr[s].running
                   /\ thr'[s].paused = thr[s].paused
                   /\ thr[s].pc = "parked" => thr'[s].pc = "parked"]_vars

\* C14: every control-thread write of a live session's running, paused,
\* restart or start_at is made while the control thread holds the mutex,
\* and the loop makes its paused check while it holds the mutex.
C14_FlagsUnderMutex ==
    [][\A s \in Sessions :
          (live(s) /\ thr'[s].st = "live") =>
              /\ (\/ thr'[s].running # thr[s].running
                  \/ thr'[s].paused # thr[s].paused
                  \/ thr'[s].start_at # thr[s].start_at
                  \/ (~thr[s].restart /\ thr'[s].restart))
                 => mutex = -1
              /\ (thr[s].pc = "pcheck" /\ thr'[s].pc # "pcheck") => mutex = s]_vars

\* C18: whenever a session is alive and no handler is under way,
\* MainWindow.sound_paused equals the session's paused flag.
C18_FacadePausedAgrees ==
    \A s \in Sessions :
        (loop_alive(s) /\ ctl_pc = "idle") => sound_paused = thr[s].paused

\* C15: one tick per chunk written: the writes completed and not yet ticked
\* are 0 or 1, and 1 exactly between the return of stream.write and the
\* emit, which comes before the paused check; in a session never redirected
\* the ticks emitted are the writes completed minus that difference.
C15_TickPerWrite ==
    \A s \in Sessions :
        /\ thr[s].untick \in {0, 1}
        /\ live(s) => (thr[s].untick = 1 <=> thr[s].pc = "tick")
        /\ (live(s) /\ ~thr[s].redirected) =>
               /\ Len(thr[s].ticks) = Len(thr[s].written) - thr[s].untick
               /\ Len(thr[s].ticks) <= Len(thr[s].written)

C15_Witness ==
    \E s \in Sessions :
        /\ live(s) /\ ~thr[s].redirected /\ thr[s].pc = "tick"
        /\ Len(thr[s].written) = 2 /\ Len(thr[s].ticks) = 1

\* C16: the loop is in the pause wait (from the lock to the unlock) only
\* after it has written and ticked at least one chunk of the current pass,
\* so a pause requested before the first chunk parks the loop only after it.
C16_ParksAtChunkBoundary ==
    \A s \in Sessions :
        (live(s) /\ thr[s].pc \in {"lock", "wait", "parked", "woken", "unlock"}) =>
            /\ thr[s].i >= 1
            /\ thr[s].untick = 0
            /\ thr[s].i <= chunks(s)

C16_Witness ==
    \E s \in Sessions :
        /\ live(s) /\ thr[s].paused /\ thr[s].running /\ ~thr[s].restart
        /\ thr[s].pc = "write" /\ thr[s].i = 0 /\ thr[s].written = <<>>
        /\ ~thr[s].redirected

\* C19: a play_at that finds the loop parked in the pause wait of a paused
\* session leaves it parked; from then on the loop writes no chunk of the
\* pass it was parked in, and the pass it sets up next, whose first chunk is
\* the next chunk written, starts at the requested offset (or at the offset
\* of a later play_at).
C19_RedirectWhileParked ==
    [][\A s \in Sessions :
          /\ ((ctl_pc = "play_restart" \/ ctl_pc' = "play_restart") /\ parked(s))
                => thr'[s].pc = "parked"
          /\ thr'[s].rqp => thr'[s].extra = 0
          /\ (thr[s].pc = "write" /\ thr'[s].pc = "tick" /\ thr[s].rqp)
                => thr[s].pass_new
          /\ (thr[s].rqp /\ thr[s].pass_new)
                => /\ thr[s].i = 0
                   /\ chunk_at(thr[s].start, thr[s].i)
                        \in {thr[s].rq} \cup
                            (IF ctl_pc = "play_restart" THEN {thr[s].start_at} ELSE {})]_vars

C19_Witness ==
    \E s \in Sessions :
        /\ live(s) /\ thr[s].rqp /\ ~thr[s].paused /\ thr[s].running
        /\ thr[s].pc = "write" /\ thr[s].pass_new /\ thr[s].i = 0
        /\ thr[s].rq = OffsetStep /\ thr[s].start = OffsetStep
        /\ ctl_pc = "idle"

\* C17: a session whose paused flag is never set and whose loop has opened
\* the device is eventually over: its loop leaves the while loop, closes the
\* device, finished is emitted and on_sound_done forgets the session.
C17_UnpausedSessionEnds ==
    \A s \in Sessions :
        ([](~thr[s].paused)) => (in_loop(s) ~> thr[s].st = "gone")

\* two intents so far, a play and a click that redirected the session: it
\* was never paused nor stopped, and its run() has returned
C17_Witness ==
    \E s \in Sessions :
        /\ live(s) /\ thr[s].redirected /\ thr[s].running /\ ~thr[s].paused
        /\ ops = 2 /\ ~sound_paused
        /\ thr[s].pc = "done" /\ thr[s].closes = 1 /\ s \in events

\* C20: once running is False it stays False while the session exists; a
\* pass set up after the stop never enters the body of the for loop, at most
\* one chunk write begins after the stop, and a stopped loop that is not
\* paused nor on its way into the pause wait leaves the while loop and
\* closes the device, whatever play_at does to it, unless it is paused first.
C20_StoppedStaysStopped ==
    /\ [][\A s \in Sessions :
            (live(s) /\ ~thr[s].running /\ thr'[s].st = "live")
                => ~thr'[s].running]_vars
    /\ [](\A s \in Sessions :
            /\ (live(s) /\ thr[s].pass_stopped) => ~in_body(s)
            /\ thr[s].wstop <= 1)
    /\ \A s \in Sessions :
         (in_loop(s) /\ ~thr[s].running /\ ~thr[s].paused
            /\ thr[s].pc \notin {"lock", "wait", "parked"})
         ~> (~in_loop(s) \/ thr[s].paused)

C20_Witness ==
    \E s \in Sessions :
        /\ live(s) /\ ~thr[s].running /\ thr[s].pass_stopped
        /\ thr[s].pc = "for" /\ thr[s].i = 0 /\ chunks(s) > 0
        /\ thr[s].start = OffsetStep /\ ~thr[s].restart

====
